---- MODULE Spec2Model ----
(***************************************************************************)
(* Model of the article-generation endpoint of the journalist repository:  *)
(* src/app/api/generate/route.ts (POST, searcherAgent, writerAgent,        *)
(* editorAgent).  One request is followed from its arrival to its          *)
(* response; the state is observed at every await on a collaborator.       *)
(*                                                                         *)
(* Strings are sequences of characters.  A fixed text of the source (a     *)
(* message, a label) is one element of such a sequence, so concatenation   *)
(* is \o and the empty string is << >>.                                    *)
(***************************************************************************)
EXTENDS Integers, Sequences, FiniteSets, TLC

VARIABLES
    pc,             \* position of POST: the await it is suspended on
    body,           \* the request payload as received
    apiKey,         \* process.env.OPENAI_API_KEY
    topic,          \* searcherAgent's / writerAgent's parameter: topic.trim()
    plannerContent, \* choices[0]?.message?.content of the planning call
    queries,        \* searcherAgent: queries
    qi,             \* searcherAgent: index of the query whose fetch is awaited
    allSnippets,    \* searcherAgent: allSnippets, then POST: researchData
    yielded,        \* history: number of allSnippets.push calls of line 69
    lastFailed,     \* history: the query processed last ended in an error
    draft,          \* POST: draft
    editorContent,  \* choices[0]?.message?.content of the editing call
    calls,          \* history: collaborator calls issued, in order
    responses,      \* responses returned by POST, in order
    thrown,         \* history: the value the catch of line 195 received, and from where
    organicResults, \* searcherAgent: results (line 59) of the response being read
    dash            \* DashboardPage: its state, the two timers and handleGenerate's position

vars == <<pc, body, apiKey, topic, plannerContent, queries, qi, allSnippets,
          yielded, lastFailed, draft, editorContent, calls, responses,
          thrown, organicResults, dash>>

----------------------------------------------------------------------------
(* Bounds of the model *)

MaxTopicLen == 3
MaxPlanLines == 4
MaxResults == 4
MaxGenerations == 2

(* Program constants *)

QueryCap == 3
ResultCap == 3

----------------------------------------------------------------------------
(* Strings *)

NL == "\n"
SP == " "
WhiteSpace == {SP, NL}
Chars == {"a", SP, NL}

SeqsUpTo(S, n) == UNION {[1..k -> S] : k \in 0..n}

Min(a, b) == IF a < b THEN a ELSE b

RECURSIVE TrimStart(_)
TrimStart(s) ==
    IF s = <<>> THEN s
    ELSE IF Head(s) \in WhiteSpace THEN TrimStart(Tail(s)) ELSE s

RECURSIVE TrimEnd(_)
TrimEnd(s) ==
    IF s = <<>> THEN s
    ELSE IF s[Len(s)] \in WhiteSpace THEN TrimEnd(SubSeq(s, 1, Len(s) - 1)) ELSE s

\* String.prototype.trim
Trim(s) == TrimEnd(TrimStart(s))

\* String.prototype.split("\n"): the empty string splits into one empty line
RECURSIVE Split(_)
Split(s) ==
    IF \A i \in 1..Len(s) : s[i] # NL THEN <<s>>
    ELSE LET i == CHOOSE k \in 1..Len(s) :
                      s[k] = NL /\ \A j \in 1..(k - 1) : s[j] # NL
         IN <<SubSeq(s, 1, i - 1)>> \o Split(SubSeq(s, i + 1, Len(s)))

\* Array.prototype.join("\n")
RECURSIVE Join(_)
Join(parts) ==
    IF parts = <<>> THEN <<>>
    ELSE IF Len(parts) = 1 THEN parts[1]
    ELSE parts[1] \o <<NL>> \o Join(Tail(parts))

\* Array.prototype.filter(Boolean) on an array of strings
FilterBoolean(parts) == SelectSeq(parts, LAMBDA p : p # <<>>)

\* Array.prototype.slice(0, n)
Slice(s, n) == SubSeq(s, 1, Min(n, Len(s)))

----------------------------------------------------------------------------
(* JavaScript values: a type tag and, for a string, its characters *)

Undefined == [t |-> "undefined", s |-> <<>>]
Null == [t |-> "null", s |-> <<>>]
Str(s) == [t |-> "string", s |-> s]
NonString == {[t |-> x, s |-> <<>>] : x \in {"null", "zero", "number", "false", "true", "object"}}

\* ToBoolean
Truthy(v) ==
    CASE v.t = "string" -> v.s # <<>>
      [] v.t \in {"undefined", "null", "zero", "false"} -> FALSE
      [] OTHER -> TRUE

----------------------------------------------------------------------------
(* Inputs: what the client, the environment and the collaborators supply *)

TopicStrings == SeqsUpTo(Chars, MaxTopicLen)

\* A payload whose JSON parse fails, the JSON value null, another JSON value
\* that is not an object (number, string, boolean, array), or an object whose
\* topic property is absent or holds a JSON value.
Bodies ==
    {[t |-> x, topic |-> Undefined] : x \in {"unparsable", "null", "primitive"}}
    \cup {[t |-> "object", topic |-> v] :
             v \in {Undefined} \cup NonString \cup {Str(s) : s \in TopicStrings}}

ApiKeys == {Undefined, Str(<<>>), Str(<<"sk-key">>)}

\* Values a rejected await can throw: an Error with a message, or another value
Thrown == {[isError |-> TRUE, message |-> <<"Connection error.">>],
           [isError |-> FALSE, message |-> <<>>]}

JsonSyntaxError == [isError |-> TRUE, message |-> <<"Unexpected token in JSON">>]
DestructureTypeError ==
    [isError |-> TRUE, message |-> <<"Cannot destructure property 'topic' of null">>]

\* Lines the planning call can answer with: empty, blank, and two queries
\* with surrounding blanks
PlanLines == {<<>>, <<SP>>, <<"a">>, <<SP, "b", SP>>}

PlannerContents ==
    {Null} \cup {Str(Join(ls)) : ls \in (SeqsUpTo(PlanLines, MaxPlanLines) \ {<<>>})}

WriterContents == {Null, Str(<<>>), Str(<<"D">>)}
EditorContents == {Null, Str(<<>>), Str(<<"E">>)}

\* One organic result: null, or an object whose three fields are present or not
NullResult == [t |-> "null", title |-> <<>>, snippet |-> <<>>, link |-> <<>>]
ResultsFor(q) ==
    {NullResult,
     [t |-> "object", title |-> <<>>, snippet |-> <<>>, link |-> <<>>],
     [t |-> "object", title |-> <<"about ">> \o q, snippet |-> <<"text">>,
      link |-> <<"https://x">>]}

\* What one search request can end in
SearchOutcomes(q) ==
    {[kind |-> k, results |-> <<>>] :
        k \in {"timeout", "http_error", "bad_json", "null_data", "bad_results"}}
    \cup {[kind |-> "ok", results |-> rs] : rs \in SeqsUpTo(ResultsFor(q), MaxResults)}

----------------------------------------------------------------------------
(* searcherAgent *)

\* lines 36-41: queriesText and queries
PlanQueries(content, t) ==
    LET queriesText == IF Truthy(content) THEN content.s ELSE t
        trimmed == [i \in 1..Len(Split(queriesText)) |-> Trim(Split(queriesText)[i])]
    IN Slice(FilterBoolean(trimmed), QueryCap)

\* Variant of BuildSnippet: the filter(Boolean) of line 67 is left out
BuildSnippetUnfiltered(result) ==
    Join(<<result.title,
           result.snippet,
           IF result.link # <<>> THEN <<"Source: ">> \o result.link ELSE <<>>>>)

\* lines 62-68: the text block of one result
BuildSnippet(result) ==
    Join(FilterBoolean(<<result.title,
                         result.snippet,
                         IF result.link # <<>>
                             THEN <<"Source: ">> \o result.link ELSE <<>>>>))

\* lines 61-70: the loop over the results; reading a field of a null result
\* throws, and what was pushed before stays pushed
RECURSIVE PushResults(_, _)
PushResults(results, pushed) ==
    IF results = <<>> THEN [pushed |-> pushed, failed |-> FALSE]
    ELSE IF Head(results).t = "null" THEN [pushed |-> pushed, failed |-> TRUE]
    ELSE LET snippet == BuildSnippet(Head(results))
         IN PushResults(Tail(results),
                        IF snippet # <<>> THEN Append(pushed, snippet) ELSE pushed)

\* lines 47-74: the body of the loop for one query, given what its fetch ends in
ProcessQuery(outcome) ==
    CASE outcome.kind = "timeout" -> [pushed |-> <<>>, failed |-> TRUE]
      [] outcome.kind = "http_error" -> [pushed |-> <<>>, failed |-> TRUE]
      [] outcome.kind = "bad_json" -> [pushed |-> <<>>, failed |-> TRUE]
      [] outcome.kind = "null_data" -> [pushed |-> <<>>, failed |-> TRUE]
      [] outcome.kind = "bad_results" -> [pushed |-> <<>>, failed |-> TRUE]
      [] OTHER -> PushResults(Slice(outcome.results, ResultCap), <<>>)

NoResultsSnippet(t) ==
    <<"No search results were found. Write the article based on your general knowledge of: ">>
        \o t

\* Variant of FinishSnippets: the substitution of lines 77-81 is left out
FinishSnippetsNoFallback(snippets, t) == snippets

\* lines 77-83
FinishSnippets(snippets, t) ==
    IF Len(snippets) = 0 THEN <<NoResultsSnippet(t)>> ELSE snippets

----------------------------------------------------------------------------
(* writerAgent, editorAgent *)

\* line 120
WriterResult(content) == IF Truthy(content) THEN content.s ELSE <<>>

\* Variant of EditorResult: ?? in place of ||, an empty answer is kept
EditorResultNullish(content, d) == IF content.t = "string" THEN content.s ELSE d

\* line 154
EditorResult(content, d) == IF Truthy(content) THEN content.s ELSE d

----------------------------------------------------------------------------
(* POST *)

\* Variant of InvalidTopic: the topic is not trimmed before its length is taken
InvalidTopicUntrimmed(v) ==
    \/ ~Truthy(v)
    \/ v.t # "string"
    \/ Len(v.s) = 0

\* line 164
InvalidTopic(v) ==
    \/ ~Truthy(v)
    \/ v.t # "string"
    \/ Len(Trim(v.s)) = 0

\* Variant of KeyMissing: only an unset variable counts, an empty one passes
KeyMissingUnsetOnly(k) == k.t = "undefined"

\* line 171
KeyMissing(k) == ~Truthy(k)

\* Variant of DraftMissing: the check of line 184 is left out
DraftMissingNever(d) == FALSE

\* Variant of DraftMissing: the test of line 184 is inverted
DraftMissingInverted(d) == d # <<>>

\* line 184
DraftMissing(d) == d = <<>>

\* Variant of CatchMessage: the thrown message is never used
CatchMessageGeneric(err) == <<"Internal server error">>

\* lines 198-199
CatchMessage(err) ==
    IF err.isError THEN err.message ELSE <<"Internal server error">>

\* Variant of JsonError: the error body also carries an empty article
JsonErrorWithArticle(message, status) ==
    [status |-> status, body |-> [error |-> message, article |-> <<>>]]

\* NextResponse.json({ error }, { status })
JsonError(message, status) == [status |-> status, body |-> [error |-> message]]

\* NextResponse.json({ article })
JsonArticle(article) == [status |-> 200, body |-> [article |-> article]]

\* What the catch of line 195 received: nothing yet, or a value and the
\* await that threw it
NoThrow == [by |-> "none", err |-> [isError |-> FALSE, message |-> <<>>]]
Threw(by, err) == [by |-> by, err |-> err]

\* DashboardPage as first rendered (page.tsx lines 44-48): no timer set,
\* handleGenerate not running.  invocations, requests and settled are
\* history: the calls of handleGenerate, the fetches issued, and how the
\* last request ended; reply is the response handleGenerate holds once
\* fetch has resolved.
NoReply == [ok |-> FALSE, parses |-> FALSE, text |-> <<>>]
DashFirstRender(t) ==
    [topic |-> t, article |-> <<>>, loading |-> FALSE, error |-> <<>>,
     agentStep |-> "idle", timer1 |-> "unset", timer2 |-> "unset",
     pc |-> "idle", reply |-> NoReply,
     invocations |-> 0, requests |-> 0, settled |-> "none"]

PlannerCall == [kind |-> "planner", q |-> <<>>]
SearchCall(q) == [kind |-> "search", q |-> q]
WriterCall == [kind |-> "writer", q |-> <<>>]
EditorCall == [kind |-> "editor", q |-> <<>>]

Init ==
    /\ pc = "received"
    /\ body \in Bodies
    /\ apiKey \in ApiKeys
    /\ topic = <<>>
    /\ plannerContent = Undefined
    /\ queries = <<>>
    /\ qi = 0
    /\ allSnippets = <<>>
    /\ yielded = 0
    /\ lastFailed = FALSE
    /\ draft = Undefined
    /\ editorContent = Undefined
    /\ calls = <<>>
    /\ responses = <<>>
    /\ thrown = NoThrow
    /\ organicResults = <<>>
    /\ dash = DashFirstRender(<<>>)

Respond(r) ==
    /\ responses' = Append(responses, r)
    /\ pc' = "responded"

\* lines 195-202
Catch(err) == Respond(JsonError(CatchMessage(err), 500))

\* lines 160-179, up to the planning call of searcherAgent (line 19)
Receive ==
    /\ pc = "received"
    /\ IF body.t = "unparsable" THEN
           /\ Catch(JsonSyntaxError)
           /\ thrown' = Threw("request", JsonSyntaxError)
           /\ UNCHANGED <<topic, calls>>
       ELSE IF body.t = "null" THEN
           /\ Catch(DestructureTypeError)
           /\ thrown' = Threw("request", DestructureTypeError)
           /\ UNCHANGED <<topic, calls>>
       ELSE IF InvalidTopic(body.topic) THEN
           /\ Respond(JsonError(<<"A valid topic is required.">>, 400))
           /\ UNCHANGED <<topic, calls, thrown>>
       ELSE IF KeyMissing(apiKey) THEN
           /\ Respond(JsonError(<<"OpenAI API key is not configured.">>, 500))
           /\ UNCHANGED <<topic, calls, thrown>>
       ELSE
           /\ topic' = Trim(body.topic.s)
           /\ calls' = Append(calls, PlannerCall)
           /\ pc' = "planner"
           /\ UNCHANGED <<responses, thrown>>
    /\ UNCHANGED <<organicResults, dash, body, apiKey, plannerContent, queries, qi, allSnippets,
                   yielded, lastFailed, draft, editorContent>>

\* The end of searcherAgent (lines 77-83) and the drafting call of
\* writerAgent (lines 182, 92-95)
ReturnResearch(snippets) ==
    /\ allSnippets' = FinishSnippets(snippets, topic)
    /\ calls' = Append(calls, WriterCall)
    /\ pc' = "writer"

\* The planning call returns: lines 36-54, up to the first fetch
PlannerReturn ==
    /\ pc = "planner"
    /\ \E content \in PlannerContents :
         LET qs == PlanQueries(content, topic)
         IN /\ queries' = qs
            /\ IF qs # <<>> THEN
                   /\ qi' = 1
                   /\ allSnippets' = <<>>
                   /\ calls' = Append(calls, SearchCall(qs[1]))
                   /\ pc' = "search"
               ELSE
                   /\ qi' = 0
                   /\ ReturnResearch(<<>>)
    /\ UNCHANGED <<thrown, organicResults, dash, body, apiKey, topic, plannerContent, yielded, lastFailed,
                   draft, editorContent, responses>>

\* Variant of PlannerThrow: searcherAgent catches the planning failure itself
\* and goes on with the topic as the only query
PlannerThrowSwallowed ==
    /\ pc = "planner"
    /\ \E err \in Thrown : thrown' = Threw("planner", err)
    /\ queries' = <<topic>>
    /\ qi' = 1
    /\ allSnippets' = <<>>
    /\ calls' = Append(calls, SearchCall(topic))
    /\ pc' = "search"
    /\ UNCHANGED <<organicResults, dash, body, apiKey, topic, plannerContent,
                   yielded, lastFailed, draft, editorContent, responses>>

\* The planning call throws: nothing in searcherAgent catches it
PlannerThrow ==
    /\ pc = "planner"
    /\ \E err \in Thrown : Catch(err) /\ thrown' = Threw("planner", err)
    /\ UNCHANGED <<organicResults, dash, body, apiKey, topic, plannerContent, queries, qi,
                   allSnippets, yielded, lastFailed, draft, editorContent, calls>>

\* The fetch of query qi settles: lines 54-75, then the next fetch or the
\* end of the loop
SearchReturn ==
    /\ pc = "search"
    /\ \E outcome \in SearchOutcomes(queries[qi]) :
         LET r == ProcessQuery(outcome)
             snippets == allSnippets \o r.pushed
         IN /\ lastFailed' = r.failed
            /\ yielded' = yielded + Len(r.pushed)
            /\ IF qi < Len(queries) THEN
                   /\ qi' = qi + 1
                   /\ allSnippets' = snippets
                   /\ calls' = Append(calls, SearchCall(queries[qi + 1]))
                   /\ pc' = "search"
               ELSE
                   /\ qi' = qi
                   /\ ReturnResearch(snippets)
    /\ UNCHANGED <<thrown, organicResults, dash, body, apiKey, topic, plannerContent, queries, draft,
                   editorContent, responses>>

\* The drafting call returns: lines 120, 184-192, up to the editing call
WriterReturn ==
    /\ pc = "writer"
    /\ \E content \in WriterContents :
         LET d == WriterResult(content)
         IN /\ draft' = Str(d)
            /\ IF DraftMissing(d) THEN
                   /\ Respond(JsonError(<<"Failed to generate article draft.">>, 500))
                   /\ UNCHANGED calls
               ELSE
                   /\ calls' = Append(calls, EditorCall)
                   /\ pc' = "editor"
                   /\ UNCHANGED responses
    /\ UNCHANGED <<thrown, organicResults, dash, body, apiKey, topic, plannerContent, queries, qi,
                   allSnippets, yielded, lastFailed, editorContent>>

WriterThrow ==
    /\ pc = "writer"
    /\ \E err \in Thrown : Catch(err) /\ thrown' = Threw("writer", err)
    /\ UNCHANGED <<organicResults, dash, body, apiKey, topic, plannerContent, queries, qi,
                   allSnippets, yielded, lastFailed, draft, editorContent, calls>>

\* The editing call returns: lines 154, 192-194
EditorReturn ==
    /\ pc = "editor"
    /\ \E content \in EditorContents :
         /\ editorContent' = content
         /\ Respond(JsonArticle(EditorResult(content, draft.s)))
    /\ UNCHANGED <<thrown, organicResults, dash, body, apiKey, topic, plannerContent, queries, qi,
                   allSnippets, yielded, lastFailed, draft, calls>>

EditorThrow ==
    /\ pc = "editor"
    /\ \E err \in Thrown : Catch(err) /\ thrown' = Threw("editor", err)
    /\ UNCHANGED <<organicResults, dash, body, apiKey, topic, plannerContent, queries, qi,
                   allSnippets, yielded, lastFailed, draft, editorContent, calls>>

Next ==
    \/ Receive
    \/ PlannerReturn
    \/ PlannerThrow
    \/ SearchReturn
    \/ WriterReturn
    \/ WriterThrow
    \/ EditorReturn
    \/ EditorThrow

Spec == Init /\ [][Next]_vars

----------------------------------------------------------------------------
(* The parse of the planning answer on its own: the request is suspended   *)
(* on the planning call of a valid topic, the answer of the call is        *)
(* recorded, and lines 36-41 are applied to it.                            *)

\* The payloads that pass the checks of line 164
PlanBodies == {b \in Bodies : b.t = "object" /\ ~InvalidTopic(b.topic)}

InitPlan ==
    /\ pc = "plan"
    /\ body \in PlanBodies
    /\ apiKey = Str(<<"sk-key">>)
    /\ topic = Trim(body.topic.s)
    /\ plannerContent \in PlannerContents
    /\ queries = <<>>
    /\ qi = 0
    /\ allSnippets = <<>>
    /\ yielded = 0
    /\ lastFailed = FALSE
    /\ draft = Undefined
    /\ editorContent = Undefined
    /\ calls = <<PlannerCall>>
    /\ responses = <<>>
    /\ thrown = NoThrow
    /\ organicResults = <<>>
    /\ dash = DashFirstRender(<<>>)

ParsePlan ==
    /\ pc = "plan"
    /\ queries' = PlanQueries(plannerContent, topic)
    /\ pc' = "planned"
    /\ UNCHANGED <<thrown, organicResults, dash, body, apiKey, topic, plannerContent, qi, allSnippets,
                   yielded, lastFailed, draft, editorContent, calls, responses>>

SpecPlan == InitPlan /\ [][ParsePlan]_vars

----------------------------------------------------------------------------
(* The reading of one search response on its own: the request is suspended *)
(* on the fetch of its only query, the organic_results of the response are *)
(* recorded, and lines 59-83 are applied to them.                          *)

\* One organic result with any of its three fields present or not, or null
AnyResults ==
    {NullResult}
    \cup {[t |-> "object", title |-> ti, snippet |-> sn, link |-> li] :
             ti \in {<<>>, <<"Title">>},
             sn \in {<<>>, <<"Text">>},
             li \in {<<>>, <<"https://x">>}}

InitSnippet ==
    /\ pc = "results"
    /\ body = [t |-> "object", topic |-> Str(<<"a">>)]
    /\ apiKey = Str(<<"sk-key">>)
    /\ topic = <<"a">>
    /\ plannerContent = Undefined
    /\ queries = <<<<"a">>>>
    /\ qi = 1
    /\ allSnippets = <<>>
    /\ yielded = 0
    /\ lastFailed = FALSE
    /\ draft = Undefined
    /\ editorContent = Undefined
    /\ calls = <<PlannerCall, SearchCall(<<"a">>)>>
    /\ responses = <<>>
    /\ thrown = NoThrow
    /\ organicResults \in SeqsUpTo(AnyResults, MaxResults)
    /\ dash = DashFirstRender(<<>>)

\* lines 59-83 and the drafting call, for the last query
ReadResults ==
    /\ pc = "results"
    /\ LET r == ProcessQuery([kind |-> "ok", results |-> organicResults])
       IN /\ lastFailed' = r.failed
          /\ yielded' = yielded + Len(r.pushed)
          /\ ReturnResearch(allSnippets \o r.pushed)
    /\ UNCHANGED <<thrown, organicResults, dash, body, apiKey, topic,
                   plannerContent, queries, qi, draft, editorContent, responses>>

SpecSnippet == InitSnippet /\ [][ReadResults]_vars

----------------------------------------------------------------------------
(* DashboardPage (src/app/dashboard/page.tsx): handleGenerate, its two      *)
(* progress timers and the request it awaits.  The input and the button    *)
(* are disabled while loading (lines 148, 155, 159), so handleGenerate     *)
(* starts only when no run of it is suspended.                             *)

routeVars == <<pc, body, apiKey, topic, plannerContent, queries, qi,
               allSnippets, yielded, lastFailed, draft, editorContent, calls,
               responses, thrown, organicResults>>

\* What the endpoint's answer can be: response.ok, whether response.json()
\* resolves, and the article or error field of the parsed body
ServerReplies ==
    {[ok |-> TRUE, parses |-> TRUE, text |-> <<"Article">>],
     [ok |-> TRUE, parses |-> FALSE, text |-> <<>>],
     [ok |-> FALSE, parses |-> TRUE, text |-> <<"A valid topic is required.">>],
     [ok |-> FALSE, parses |-> TRUE, text |-> <<>>],
     [ok |-> FALSE, parses |-> FALSE, text |-> <<>>]}

InitDash ==
    /\ pc = "received"
    /\ body = [t |-> "object", topic |-> Undefined]
    /\ apiKey = Undefined
    /\ topic = <<>>
    /\ plannerContent = Undefined
    /\ queries = <<>>
    /\ qi = 0
    /\ allSnippets = <<>>
    /\ yielded = 0
    /\ lastFailed = FALSE
    /\ draft = Undefined
    /\ editorContent = Undefined
    /\ calls = <<>>
    /\ responses = <<>>
    /\ thrown = NoThrow
    /\ organicResults = <<>>
    /\ dash = DashFirstRender(<<>>)

\* line 146: the input is enabled only while not loading (line 155)
SetTopic ==
    /\ ~dash.loading
    /\ \E t \in TopicStrings : dash' = [dash EXCEPT !.topic = t]
    /\ UNCHANGED routeVars

\* lines 51-64: handleGenerate up to the await of fetch
Generate ==
    /\ ~dash.loading
    /\ dash.invocations < MaxGenerations
    /\ IF Trim(dash.topic) = <<>> THEN
           dash' = [dash EXCEPT !.invocations = @ + 1]
       ELSE
           dash' = [dash EXCEPT !.invocations = @ + 1,
                                !.loading = TRUE,
                                !.error = <<>>,
                                !.article = <<>>,
                                !.agentStep = "searching",
                                !.timer1 = "pending",
                                !.timer2 = "pending",
                                !.requests = @ + 1,
                                !.settled = "none",
                                !.pc = "fetch"]
    /\ UNCHANGED routeVars

\* line 60: the 8000 ms timer runs its callback
Timer1Fires ==
    /\ dash.timer1 = "pending"
    /\ dash' = [dash EXCEPT !.agentStep = "writing", !.timer1 = "fired"]
    /\ UNCHANGED routeVars

\* line 61: the 20000 ms timer runs its callback; set at the same time as
\* the 8000 ms timer, it runs after it
Timer2Fires ==
    /\ dash.timer2 = "pending"
    /\ dash.timer1 # "pending"
    /\ dash' = [dash EXCEPT !.agentStep = "editing", !.timer2 = "fired"]
    /\ UNCHANGED routeVars

\* Variant of ClearTimer: the clearTimeout of lines 86-87 is left out
ClearTimerForgotten(t) == t

\* clearTimeout: a timer that has not run will not run
ClearTimer(t) == IF t = "pending" THEN "cleared" ELSE t

\* lines 78-79 and 85-88
Succeed(article) ==
    dash' = [dash EXCEPT !.article = article,
                         !.agentStep = "done",
                         !.timer1 = ClearTimer(@),
                         !.timer2 = ClearTimer(@),
                         !.loading = FALSE,
                         !.settled = "success",
                         !.pc = "idle"]

\* lines 80-88
Fail(message) ==
    dash' = [dash EXCEPT !.error = message,
                         !.agentStep = "idle",
                         !.timer1 = ClearTimer(@),
                         !.timer2 = ClearTimer(@),
                         !.loading = FALSE,
                         !.settled = "failure",
                         !.pc = "idle"]

\* line 64: fetch rejects
FetchRejects ==
    /\ dash.pc = "fetch"
    /\ Fail(<<"Failed to fetch">>)
    /\ UNCHANGED routeVars

\* lines 64-77: fetch resolves, up to the await of response.json()
FetchResolves ==
    /\ dash.pc = "fetch"
    /\ \E reply \in ServerReplies : dash' = [dash EXCEPT !.pc = "json", !.reply = reply]
    /\ UNCHANGED routeVars

\* lines 71-88: response.json() settles
JsonSettles ==
    /\ dash.pc = "json"
    /\ LET reply == dash.reply
       IN IF ~reply.ok THEN
              Fail(IF reply.parses /\ reply.text # <<>>
                       THEN reply.text
                       ELSE <<"Request failed with status ">>)
          ELSE IF reply.parses THEN Succeed(reply.text)
          ELSE Fail(<<"Unexpected end of JSON input">>)
    /\ UNCHANGED routeVars

NextDash ==
    \/ SetTopic
    \/ Generate
    \/ Timer1Fires
    \/ Timer2Fires
    \/ FetchRejects
    \/ FetchResolves
    \/ JsonSettles

SpecDash == InitDash /\ [][NextDash]_vars

----------------------------------------------------------------------------
(* Properties *)

Responded == pc = "responded"

TopicIsString == body.t = "object" /\ body.topic.t = "string"
BlankTopic == TopicIsString /\ Trim(body.topic.s) = <<>>
ValidTopic == TopicIsString /\ Trim(body.topic.s) # <<>>
KeyConfigured == apiKey.t = "string" /\ apiKey.s # <<>>

Called(kind) == \E i \in 1..Len(calls) : calls[i].kind = kind

IsErrorResponse(r, status, message) ==
    r.status = status /\ DOMAIN r.body = {"error"} /\ r.body.error = message

\* C1: a request whose topic is the empty string or only whitespace invokes
\* no collaborator, and its response is the 400 error response.
C1_BlankTopicRejected ==
    BlankTopic =>
        /\ calls = <<>>
        /\ pc \in {"received", "responded"}
        /\ Responded =>
             /\ Len(responses) = 1
             /\ IsErrorResponse(responses[1], 400, <<"A valid topic is required.">>)

\* a whitespace-only topic was rejected although the key is configured
C1_Witness ==
    /\ Responded
    /\ BlankTopic
    /\ body.topic.s # <<>>
    /\ KeyConfigured
    /\ responses[1].status = 400

\* C2: a parsed payload whose topic is absent or not a string (the JSON null
\* body included) is answered with status 400 and invokes no collaborator.
C2_NonStringTopicRejected ==
    (body.t \in {"null", "primitive", "object"} /\ body.topic.t # "string") =>
        /\ calls = <<>>
        /\ Responded => (Len(responses) = 1 /\ responses[1].status = 400)

\* C3: with a valid topic and no configured OPENAI_API_KEY no collaborator is
\* invoked and the response is the 500 error response about the key.
C3_MissingKeyRejected ==
    (ValidTopic /\ ~KeyConfigured) =>
        /\ calls = <<>>
        /\ pc \in {"received", "responded"}
        /\ Responded =>
             /\ Len(responses) = 1
             /\ IsErrorResponse(responses[1], 500,
                                <<"OpenAI API key is not configured.">>)

\* a valid topic was rejected because the key is the empty string
C3_Witness ==
    /\ Responded
    /\ ValidTopic
    /\ apiKey = Str(<<>>)
    /\ responses[1].status = 500

\* C4: whatever the planning call answers, the queries number 1 to 3 and
\* each is non-empty after trimming.
C4_OneToThreeQueries ==
    pc = "planned" =>
        /\ Len(queries) \in 1..3
        /\ \A i \in 1..Len(queries) : Trim(queries[i]) # <<>>

\* C5: when the planning call answers no text (null or the empty string),
\* the only query is the trimmed topic.
C5_FallbackIsTopic ==
    (pc = "planned" /\ ~Truthy(plannerContent)) => queries = <<Trim(body.topic.s)>>

\* C6: no search outcome makes the retrieval loop fail the request, the
\* research handed to the drafter is never empty, and it is exactly the
\* no-results snippet when no query yielded a snippet.
C6_RetrievalNeverFails ==
    /\ (Responded /\ calls # <<>>) => calls[Len(calls)].kind # "search"
    /\ Called("writer") =>
         /\ allSnippets # <<>>
         /\ \A i \in 1..Len(allSnippets) : allSnippets[i] # <<>>
         /\ yielded = 0 => allSnippets = <<NoResultsSnippet(topic)>>
         /\ yielded > 0 => Len(allSnippets) = yielded

\* three queries all ended without a snippet, the last one in an error, and
\* the drafter was called
C6_Witness ==
    /\ pc = "writer"
    /\ Len(queries) = 3
    /\ lastFailed
    /\ yielded = 0
    /\ allSnippets = <<NoResultsSnippet(topic)>>

IsPrefix(s, t) == Len(s) <= Len(t) /\ SubSeq(t, 1, Len(s)) = s

\* C7: while a fetch is awaited, its settling issues exactly the next
\* query's request (or, after the last, none), keeps the snippets gathered
\* so far in order, and adds no snippet when the query ended in an error.
C7_FailedQueryAddsNothing ==
    [][pc = "search" =>
         /\ lastFailed' => yielded' = yielded
         /\ IF qi < Len(queries)
                THEN calls' = Append(calls, SearchCall(queries[qi + 1]))
                ELSE calls' = Append(calls, WriterCall)
         /\ yielded' > 0 => IsPrefix(allSnippets, allSnippets')]_vars

\* C8: an empty draft ends the request with the 500 draft-failure response
\* and the refiner is never called.
C8_EmptyDraftIsError ==
    draft = Str(<<>>) =>
        /\ Responded
        /\ ~Called("editor")
        /\ Len(responses) = 1
        /\ IsErrorResponse(responses[1], 500, <<"Failed to generate article draft.">>)

\* the drafter was called and returned an empty draft
C8_Witness ==
    /\ draft = Str(<<>>)
    /\ Called("writer")
    /\ Responded

\* C9: when the editing call returns empty or missing text, the response is
\* the success response whose article is the draft.
C9_EmptyRefinementKeepsDraft ==
    (Responded /\ editorContent \in {Null, Str(<<>>)}) =>
        /\ Len(responses) = 1
        /\ responses[1].status = 200
        /\ DOMAIN responses[1].body = {"article"}
        /\ responses[1].body.article = draft.s
        /\ draft.s # <<>>

\* the editing call returned the empty string and the request succeeded
C9_Witness ==
    /\ Responded
    /\ editorContent = Str(<<>>)
    /\ Called("editor")
    /\ responses[1].status = 200

\* C10: a request is answered at most once, a finished request exactly once,
\* and a response carries exactly one of article and error.
C10_ExactlyOneField ==
    /\ Len(responses) <= 1
    /\ Responded <=> Len(responses) = 1
    /\ \A i \in 1..Len(responses) :
         \/ DOMAIN responses[i].body = {"article"}
         \/ DOMAIN responses[i].body = {"error"}

\* a request ended in the catch block, with an error response
C10_Witness ==
    /\ Responded
    /\ Len(responses) = 1
    /\ Called("writer") /\ draft = Undefined
    /\ DOMAIN responses[1].body = {"error"}

\* C11: when the planning, drafting or editing call throws, the response is
\* the 500 error response whose error is the thrown Error's message, or the
\* generic message when the thrown value is not an Error.
C11_ThrownMessageReported ==
    thrown.by \in {"planner", "writer", "editor"} =>
        /\ Responded
        /\ Len(responses) = 1
        /\ IsErrorResponse(responses[1], 500,
                           IF thrown.err.isError
                               THEN thrown.err.message
                               ELSE <<"Internal server error">>)

\* the drafting call threw an Error and its message was reported
C11_Witness ==
    /\ thrown.by = "writer"
    /\ thrown.err.isError
    /\ Responded
    /\ responses[1].body.error = <<"Connection error.">>

\* C12: a finished request in which nothing threw and the draft is not empty
\* has the success response with a non-empty article, whatever the searches
\* ended in and whatever the editing call returned.
C12_SuccessWhenNothingThrows ==
    (Responded /\ thrown = NoThrow /\ draft.t = "string" /\ draft.s # <<>>) =>
        /\ Len(responses) = 1
        /\ responses[1].status = 200
        /\ DOMAIN responses[1].body = {"article"}
        /\ responses[1].body.article # <<>>

\* three queries without a snippet, the last one failed, the editing call
\* returned nothing, and the request succeeded
C12_Witness ==
    /\ Responded
    /\ Len(queries) = 3
    /\ yielded = 0
    /\ lastFailed
    /\ editorContent = Null
    /\ responses[1].status = 200

Rank(call) ==
    CASE call.kind = "planner" -> 1
      [] call.kind = "search" -> 2
      [] call.kind = "writer" -> 3
      [] OTHER -> 4

SearchCalls == SelectSeq(calls, LAMBDA c : c.kind = "search")

\* C13: the calls of a request are the planning call, then the search
\* requests, then the drafting call, then the editing call, each generative
\* call at most once; the drafting call comes after the search of every
\* query, the editing call after a non-empty draft; a call that throws is the
\* last call of the request and ends it in an error response, so after a
\* planning failure the planning call is the only call.
C13_StagesInOrder ==
    /\ \A i, j \in 1..Len(calls) :
         i < j => \/ Rank(calls[i]) < Rank(calls[j])
                  \/ calls[i].kind = "search" /\ calls[j].kind = "search"
    /\ calls # <<>> => calls[1] = PlannerCall
    /\ Called("writer") =>
         SearchCalls = [i \in 1..Len(queries) |-> SearchCall(queries[i])]
    /\ Called("editor") => (Called("writer") /\ draft.t = "string" /\ draft.s # <<>>)
    /\ thrown # NoThrow =>
         /\ Responded
         /\ Len(responses) = 1
         /\ DOMAIN responses[1].body = {"error"}
         /\ calls # <<>> => calls[Len(calls)].kind = thrown.by
    /\ thrown.by = "planner" => calls = <<PlannerCall>>

\* a request that went through all four stages with three searches
C13_Witness ==
    /\ Responded
    /\ Len(calls) = 6
    /\ calls[1] = PlannerCall
    /\ calls[5] = WriterCall
    /\ calls[6] = EditorCall
    /\ responses[1].status = 200

HasField(r) == r.title # <<>> \/ r.snippet # <<>> \/ r.link # <<>>

\* The text block the claim describes for a result with at least one field
ExpectedSnippet(r) ==
    LET source == <<"Source: ">> \o r.link
    IN CASE r.title # <<>> /\ r.snippet # <<>> /\ r.link # <<>> ->
                r.title \o <<NL>> \o r.snippet \o <<NL>> \o source
         [] r.title # <<>> /\ r.snippet # <<>> /\ r.link = <<>> ->
                r.title \o <<NL>> \o r.snippet
         [] r.title # <<>> /\ r.snippet = <<>> /\ r.link # <<>> ->
                r.title \o <<NL>> \o source
         [] r.title = <<>> /\ r.snippet # <<>> /\ r.link # <<>> ->
                r.snippet \o <<NL>> \o source
         [] r.title # <<>> /\ r.snippet = <<>> /\ r.link = <<>> -> r.title
         [] r.title = <<>> /\ r.snippet # <<>> /\ r.link = <<>> -> r.snippet
         [] OTHER -> source

FirstThreeWithField == SelectSeq(SubSeq(organicResults, 1, Min(3, Len(organicResults))), HasField)

\* C14: after a search response is read, no element of the research is the
\* empty string and at most 3 snippets were added; when every result is an
\* object, the snippets added are, in order, the text blocks of those of the
\* first 3 results that have a field: title, snippet text and "Source: link",
\* the present ones only, joined by line breaks.
C14_SnippetsOfFirstThree ==
    pc = "writer" =>
        /\ \A i \in 1..Len(allSnippets) : allSnippets[i] # <<>>
        /\ yielded <= 3
        /\ (\A i \in 1..Len(organicResults) : organicResults[i].t = "object") =>
             /\ yielded = Len(FirstThreeWithField)
             /\ yielded > 0 =>
                  allSnippets = [i \in 1..Len(FirstThreeWithField) |->
                                    ExpectedSnippet(FirstThreeWithField[i])]

\* four results: the first lacks its snippet text, the second has no field,
\* the fourth has all three and is not used
C14_Witness ==
    /\ pc = "writer"
    /\ Len(organicResults) = 4
    /\ \A i \in 1..4 : organicResults[i].t = "object"
    /\ organicResults[1].title # <<>> /\ organicResults[1].snippet = <<>>
    /\ organicResults[1].link # <<>>
    /\ ~HasField(organicResults[2])
    /\ HasField(organicResults[3])
    /\ HasField(organicResults[4])
    /\ Len(allSnippets) = 2

StepRank(step) ==
    CASE step = "searching" -> 1
      [] step = "writing" -> 2
      [] step = "editing" -> 3
      [] OTHER -> 0

Visible(d) == <<d.topic, d.article, d.loading, d.error, d.agentStep,
                d.timer1, d.timer2, d.pc, d.requests>>

\* C15: in every step of the dashboard: while the request stays pending
\* agentStep is one of searching, writing, editing and does not move back;
\* a settled request leaves loading false, no timer pending, and agentStep
\* "done" after a success, "idle" after a failure; while nothing is pending
\* agentStep does not change; a call of handleGenerate with a blank topic
\* issues no request and changes no state.
C15_ProgressSteps ==
    [][/\ dash'.loading => dash'.agentStep \in {"searching", "writing", "editing"}
       /\ (dash.loading /\ dash'.loading) =>
              StepRank(dash'.agentStep) >= StepRank(dash.agentStep)
       /\ (dash.loading /\ ~dash'.loading) =>
              /\ dash'.settled \in {"success", "failure"}
              /\ dash'.settled = "success" => dash'.agentStep = "done"
              /\ dash'.settled = "failure" => dash'.agentStep = "idle"
       /\ ~dash'.loading =>
              /\ dash'.timer1 # "pending"
              /\ dash'.timer2 # "pending"
              /\ dash'.pc = "idle"
       /\ (~dash.loading /\ ~dash'.loading) => dash'.agentStep = dash.agentStep
       /\ (dash'.invocations # dash.invocations /\ Trim(dash.topic) = <<>>) =>
              Visible(dash') = Visible(dash)]_vars

\* the response arrived between the two timers: the first had run, the
\* second was cleared, and the request succeeded
C15_Witness ==
    /\ dash.settled = "success"
    /\ ~dash.loading
    /\ dash.agentStep = "done"
    /\ dash.timer1 = "fired"
    /\ dash.timer2 = "cleared"

====
